---- MODULE Spec2Model ----
(***************************************************************************)
(* The authentication core of the xpay backend: registration, password    *)
(* login, the Google OAuth callback, token issuance (create_access_token)  *)
(* and the identity resolver (get_current_user), run as concurrent         *)
(* requests against one shared user store.                                 *)
(*                                                                         *)
(* Time is counted in clock ticks; TicksPerSecond ticks make one second,   *)
(* so that the truncation of datetimes to whole seconds done by the JWT    *)
(* encoder and by its expiry check is visible.                             *)
(***************************************************************************)
EXTENDS Integers, Sequences, FiniteSets, TLC

VARIABLES
    users,      \* committed rows of the users table
    req,        \* the request slots: each one request handler and its session
    now,        \* the wall clock, in ticks
    budget,     \* how many more times the clock may advance in the behaviour
    minted,     \* the last direct call of create_access_token and its result
    boot,       \* the process: its environment and how far its startup got
    call,       \* the last call of a function or endpoint made on its own,
                \* and its result
    transactions \* committed rows of the transactions table

vars == <<users, req, now, budget, minted, boot, call, transactions>>

----------------------------------------------------------------------------
(* Bounds of the model *)

MaxTicks == 3         \* clock advances in one behaviour of SpecToken
TicksPerSecond == 2   \* clock resolution
MaxSalt == 1          \* salts the hasher may draw
MaxIv == 2            \* initialisation vectors the cipher may draw

(* Program constants *)

ACCESS_TOKEN_EXPIRE_MINUTES == 60
SECRET_KEY == "secret"
ALGORITHM == "HS256"

\* two requests in flight at a time
Reqs == {1, 2}
Emails == {"a@x.io", "b@x.io"}
Passwords == {"pw1", "pw2"}
RegisterPasswords == Passwords
Salts == 1..MaxSalt

\* uuid4 draws: more ids than rows can ever be pending or committed
UserIds == 1..(Cardinality(Emails) + Cardinality(Reqs))

----------------------------------------------------------------------------
(* Strings that may be used as a token subject.  str(uuid) is the only    *)
(* kind of string the uuid column accepts as a bind value.                 *)

StrOfUuid(id) == [kind |-> "uuid", v |-> id]
TextSubjects == {[kind |-> "text", v |-> 1]}    \* e.g. "user123", "user@example.com"
IsUuidString(s) == s.kind = "uuid"

----------------------------------------------------------------------------
(* Password hasher (passlib CryptContext, argon2) *)

NoneHash == [alg |-> "none", salt |-> 0, pw |-> ""]

\* a hasher that stores the password as it is
get_password_hash_Plain(password, salt) ==
    [alg |-> "plain", salt |-> 0, pw |-> password]

get_password_hash(password, salt) ==
    [alg |-> "argon2", salt |-> salt, pw |-> password]

\* strings that are no argon2 hash: one no scheme of the context recognises,
\* and one with the argon2 prefix that does not parse
MalformedHashes == {[alg |-> "unknown", salt |-> 0, pw |-> ""],
                    [alg |-> "argon2-malformed", salt |-> 0, pw |-> ""]}

\* verify_password, which is pwd_context.verify and nothing else: False for
\* a hash of None, UnknownHashError for a string no scheme recognises,
\* ValueError for a malformed argon2 string; no exception is caught
VerifyOutcome(plain_password, hashed_password) ==
    IF hashed_password = NoneHash THEN "False"
    ELSE IF hashed_password.alg = "unknown" THEN "UnknownHashError"
    ELSE IF hashed_password.alg # "argon2" THEN "ValueError"
    ELSE IF hashed_password.pw = plain_password THEN "True"
    ELSE "False"

\* verify_password where the handlers use it as a condition: on the stored
\* hash of a user, which is None or a hash the hasher produced
verify_password(plain_password, hashed_password) ==
    VerifyOutcome(plain_password, hashed_password) = "True"

----------------------------------------------------------------------------
(* The users table *)

NoUser == [id |-> 0, email |-> "", hashed_password |-> NoneHash,
           full_name |-> "", is_active |-> FALSE]

User(id, email, hashed_password, full_name, is_active) ==
    [id |-> id, email |-> email, hashed_password |-> hashed_password,
     full_name |-> full_name, is_active |-> is_active]

\* db.query(User).filter(User.email == email).first()
QueryUserByEmail(email) ==
    IF \E u \in users : u.email = email
    THEN CHOOSE u \in users : u.email = email
    ELSE NoUser

\* the table without its UNIQUE constraint on email
IntegrityViolation_NoUnique(row) ==
    IF row.hashed_password = NoneHash THEN "not_null:hashed_password"
    ELSE "none"

\* A row violates a constraint of the table: email is UNIQUE (models.py),
\* hashed_password is NOT NULL.  The result names the violated constraint.
IntegrityViolation(row) ==
    IF row.hashed_password = NoneHash THEN "not_null:hashed_password"
    ELSE IF \E u \in users : u.email = row.email THEN "unique:email"
    ELSE "none"

----------------------------------------------------------------------------
(* Token issuer (core/security.py) and the JWT library it drives *)

EmptyClaims == [k \in {} |-> 0]
NoToken == [alg |-> "", key |-> "", claims |-> EmptyClaims]

\* Optional[dict] and Optional[timedelta] arguments
NoneDict == [none |-> TRUE, d |-> EmptyClaims]
SomeDict(d) == [none |-> FALSE, d |-> d]
NoneDelta == [none |-> TRUE, t |-> 0]
SomeDelta(t) == [none |-> FALSE, t |-> t]

\* timedelta(minutes=m), timedelta(seconds=s) in ticks
TimedeltaMinutes(m) == m * 60 * TicksPerSecond
TimedeltaSeconds(s) == s * TicksPerSecond

\* truthiness of an Optional[timedelta]: None and timedelta(0) are falsy
Truthy(delta) == ~delta.none /\ delta.t # 0

\* str(x): a UUID object becomes its uuid string, a str is returned as it is
UuidObject(id) == [kind |-> "UUID", v |-> id]
\* the subject passed on as it is, str() left out
PyStr_Identity(x) == x

PyStr(x) == IF x.kind = "UUID" THEN StrOfUuid(x.v) ELSE x

\* dict.update(other): the entries of other replace those of the dict
DictUpdate(dict, other) == other @@ dict

\* jose encodes the datetime claims exp and iat as timegm(utctimetuple()):
\* whole seconds, the fraction dropped
Timegm(t) == t \div TicksPerSecond

jwt_encode(claims, key, algorithm) ==
    [alg |-> algorithm, key |-> key,
     claims |-> [k \in DOMAIN claims |->
                    IF k \in {"exp", "iat"} THEN Timegm(claims[k]) ELSE claims[k]]]

\* the issuer leaving the caller's data out of the token
create_access_token_NoData(subject, data, expires_delta, t1, t2) ==
    LET expire_minutes == IF Truthy(expires_delta) THEN expires_delta.t
                          ELSE TimedeltaMinutes(ACCESS_TOKEN_EXPIRE_MINUTES)
        expire == t1 + expire_minutes
        to_encode == [sub |-> PyStr(subject), exp |-> expire, iat |-> t2]
    IN  [token |-> jwt_encode(to_encode, SECRET_KEY, ALGORITHM),
         data |-> data]

\* the issuer updating the standard claims with the caller's data, not the
\* other way round
create_access_token_DataWins(subject, data, expires_delta, t1, t2) ==
    LET data1 == IF data.none THEN EmptyClaims ELSE data.d
        expire_minutes == IF Truthy(expires_delta) THEN expires_delta.t
                          ELSE TimedeltaMinutes(ACCESS_TOKEN_EXPIRE_MINUTES)
        expire == t1 + expire_minutes
        to_encode == DictUpdate([sub |-> PyStr(subject), exp |-> expire,
                                 iat |-> t2], data1)
    IN  [token |-> jwt_encode(to_encode, SECRET_KEY, ALGORITHM),
         data |-> data]

\* create_access_token, with the two clock readings it makes: t1 for expire,
\* t2 for iat.  Returns the token and the caller's data object after the call.
create_access_token(subject, data, expires_delta, t1, t2) ==
    LET data1 == IF data.none THEN EmptyClaims ELSE data.d
        expire_minutes == IF Truthy(expires_delta) THEN expires_delta.t
                          ELSE TimedeltaMinutes(ACCESS_TOKEN_EXPIRE_MINUTES)
        expire == t1 + expire_minutes
        to_encode == DictUpdate(data1,
                        [sub |-> PyStr(subject), exp |-> expire, iat |-> t2])
    IN  [token |-> jwt_encode(to_encode, SECRET_KEY, ALGORITHM),
         data |-> data]

\* a decoder that never looks at the exp claim
jwt_decode_NoExpiry(token, key, algorithms, t) ==
    IF token.alg \in algorithms /\ token.key = key
       /\ "aud" \notin DOMAIN token.claims
    THEN [ok |-> TRUE, payload |-> token.claims]
    ELSE [ok |-> FALSE, payload |-> EmptyClaims]

\* a decoder that reads the claims without verifying the signature
jwt_decode_NoSignature(token, key, algorithms, t) ==
    IF \/ "exp" \in DOMAIN token.claims /\ token.claims["exp"] < Timegm(t)
       \/ "aud" \in DOMAIN token.claims
    THEN [ok |-> FALSE, payload |-> EmptyClaims]
    ELSE [ok |-> TRUE, payload |-> token.claims]

\* jwt.decode(token, key, algorithms) at clock reading t: the signature is
\* verified first, then the exp claim (when present) against whole seconds.
\* No audience is passed, and jose rejects every token that carries an aud
\* claim when the caller names no audience ("Invalid audience").
jwt_decode(token, key, algorithms, t) ==
    LET sig_ok == token.alg \in algorithms /\ token.key = key
        expired == "exp" \in DOMAIN token.claims
                   /\ token.claims["exp"] < Timegm(t)
        aud_ok == "aud" \notin DOMAIN token.claims
    IN  IF sig_ok /\ ~expired /\ aud_ok
        THEN [ok |-> TRUE, payload |-> token.claims]
        ELSE [ok |-> FALSE, payload |-> EmptyClaims]

----------------------------------------------------------------------------
(* Requests.  A slot holds one request: the handler's position (pc), its  *)
(* inputs, the user object it holds (row), the state of its session and,  *)
(* once done, the response.                                                *)

NoResp == [status |-> 0, detail |-> "", challenge |-> "", token |-> NoToken,
           user |-> NoUser]

HTTPException(status, detail, challenge) ==
    [status |-> status, detail |-> detail, challenge |-> challenge,
     token |-> NoToken, user |-> NoUser]

\* an exception no handler catches: the framework answers 500
Unhandled(exception) == HTTPException(500, exception, "")

Idle == [kind |-> "idle", pc |-> "idle", email |-> "", password |-> "",
         row |-> NoUser, token_in |-> NoToken, at |-> 0,
         session |-> "none", resp |-> NoResp]

EmailRegistered == HTTPException(400, "Email already registered", "")
InvalidCredentials == HTTPException(401, "Invalid email or password", "Bearer")
credentials_exception ==
    HTTPException(401, "Could not validate credentials", "Bearer")

Done(r, kind, email, password, row, session, resp) ==
    req' = [req EXCEPT ![r] =
              [kind |-> kind, pc |-> "done", email |-> email,
               password |-> password, row |-> row, token_in |-> NoToken,
               at |-> now, session |-> session, resp |-> resp]]

\* The clock may advance while create_access_token runs: t2 is its second
\* reading, taken when it builds the iat claim.
ClockReadings == {t2 \in {now, now + 1} : t2 = now \/ budget > 0}
ClockAt(t2) ==
    /\ now' = t2
    /\ budget' = budget - (t2 - now)

----------------------------------------------------------------------------
(* POST /auth/register *)

FullNames == {"Ann"}

\* register treating a known email as a password change
RegisterLookup_Overwrite(r, email, password, full_name, salt) ==
    /\ req[r].kind = "idle"
    /\ LET existing_user == QueryUserByEmail(email)
       IN  IF existing_user # NoUser
           THEN /\ Done(r, "register", email, password, existing_user, "open",
                        EmailRegistered)
                /\ users' = (users \ {existing_user}) \cup
                       {[existing_user EXCEPT
                            !.hashed_password = get_password_hash(password, salt)]}
           ELSE /\ req' = [req EXCEPT ![r] =
                          [Idle EXCEPT !.kind = "register", !.pc = "add",
                                       !.email = email, !.password = password,
                                       !.session = "open",
                                       !.row = User(0, email,
                                                   get_password_hash(password, salt),
                                                   full_name, TRUE)]]
                /\ users' = users
    /\ UNCHANGED <<now, budget, minted, boot, call, transactions>>

\* the existence check (line 25) and, when it passes, the new User object
RegisterLookup(r, email, password, full_name, salt) ==
    /\ req[r].kind = "idle"
    /\ LET existing_user == QueryUserByEmail(email)
       IN  IF existing_user # NoUser
           THEN Done(r, "register", email, password, existing_user, "open",
                     EmailRegistered)
           ELSE req' = [req EXCEPT ![r] =
                          [Idle EXCEPT !.kind = "register", !.pc = "add",
                                       !.email = email, !.password = password,
                                       !.session = "open",
                                       !.row = User(0, email,
                                                   get_password_hash(password, salt),
                                                   full_name, TRUE)]]
    /\ UNCHANGED <<users, now, budget, minted, boot, call, transactions>>

\* uuid4(): an id no row has yet (the smallest one stands for the random draw)
UsedIds == {u.id : u \in users} \cup {req[q].row.id : q \in Reqs}
FreshId ==
    CHOOSE i \in UserIds \ UsedIds : \A j \in UserIds \ UsedIds : i <= j

\* another session has inserted a row with this email and not yet committed:
\* the store makes an INSERT of the same unique key wait for it
InsertBlocked(r, email) ==
    \E q \in Reqs \ {r} : req[q].pc = "flushed" /\ req[q].row.email = email

\* register without its except clause
IntegrityErrorOutcome_Uncaught(kind) ==
    [session |-> "failed", resp |-> Unhandled("IntegrityError")]

\* what becomes of the IntegrityError the INSERT raises: register catches it,
\* rolls the session back and answers 400; google_callback does not catch it
IntegrityErrorOutcome(kind) ==
    IF kind = "register"
    THEN [session |-> "rolled_back", resp |-> EmailRegistered]
    ELSE [session |-> "failed", resp |-> Unhandled("IntegrityError")]

\* db.add(user); db.commit(), first half: the INSERT
Flush(r) ==
    /\ req[r].pc = "add"
    /\ LET row == [req[r].row EXCEPT !.id = FreshId]
           failure == IntegrityErrorOutcome(req[r].kind)
       IN  IF IntegrityViolation(row) # "none"
           THEN Done(r, req[r].kind, req[r].email, req[r].password,
                     req[r].row, failure.session, failure.resp)
           ELSE /\ ~InsertBlocked(r, row.email)
                /\ req' = [req EXCEPT ![r].pc = "flushed", ![r].row = row,
                                      ![r].session = "flushed"]
    /\ UNCHANGED <<users, now, budget, minted, boot, call, transactions>>

\* db.commit(), second half: the row becomes visible to every session
Commit(r) ==
    /\ req[r].pc = "flushed"
    /\ users' = users \cup {req[r].row}
    /\ req' = [req EXCEPT ![r].pc = "committed", ![r].session = "committed"]
    /\ UNCHANGED <<now, budget, minted, boot, call, transactions>>

Success(status, token, user) ==
    [status |-> status, detail |-> "", challenge |-> "", token |-> token,
     user |-> user]

\* the redirect carrying a token whose subject is the email, not the id
CallbackRedirect_EmailSubject(user, t1, t2) ==
    Success(307,
            create_access_token([kind |-> "text", v |-> 1],
                SomeDict([email |-> user.email, full_name |-> user.full_name]),
                NoneDelta, t1, t2).token,
            user)

\* the end of google_callback: the token and the redirect carrying it
CallbackRedirect(user, t1, t2) ==
    Success(307,
            create_access_token(UuidObject(user.id),
                SomeDict([email |-> user.email, full_name |-> user.full_name]),
                NoneDelta, t1, t2).token,
            user)

\* db.refresh(user), create_access_token and the response
Respond(r, t2) ==
    /\ req[r].pc = "committed"
    /\ LET new_user == CHOOSE u \in users : u.id = req[r].row.id
       IN  IF req[r].kind = "register"
           THEN Done(r, "register", req[r].email, req[r].password, new_user,
                     "committed",
                     Success(201,
                             create_access_token(StrOfUuid(new_user.id), NoneDict,
                                                 NoneDelta, now, t2).token,
                             new_user))
           ELSE Done(r, "callback", req[r].email, req[r].password, new_user,
                     "committed", CallbackRedirect(new_user, now, t2))
    /\ ClockAt(t2)
    /\ UNCHANGED <<users, minted, boot, call, transactions>>

----------------------------------------------------------------------------
(* POST /auth/login *)

\* login telling an inactive account apart from a wrong password
LoginResponse_Distinguish(user, password, t1, t2) ==
    IF user = NoUser THEN InvalidCredentials
    ELSE IF ~verify_password(password, user.hashed_password) THEN InvalidCredentials
    ELSE IF ~user.is_active THEN HTTPException(403, "Inactive user", "")
    ELSE Success(200,
                 create_access_token(StrOfUuid(user.id), NoneDict, NoneDelta,
                                     t1, t2).token,
                 user)

\* login issuing a token whose subject is the email, not the id
LoginResponse_EmailSubject(user, password, t1, t2) ==
    IF user = NoUser THEN InvalidCredentials
    ELSE IF ~verify_password(password, user.hashed_password) THEN InvalidCredentials
    ELSE IF ~user.is_active THEN InvalidCredentials
    ELSE Success(200,
                 create_access_token([kind |-> "text", v |-> 1], NoneDict,
                                     NoneDelta, t1, t2).token,
                 user)

LoginResponse(user, password, t1, t2) ==
    IF user = NoUser THEN InvalidCredentials
    ELSE IF ~verify_password(password, user.hashed_password) THEN InvalidCredentials
    ELSE IF ~user.is_active THEN InvalidCredentials
    ELSE Success(200,
                 create_access_token(StrOfUuid(user.id), NoneDict, NoneDelta,
                                     t1, t2).token,
                 user)

Login(r, username, password, t2) ==
    /\ req[r].kind = "idle"
    /\ LET user == QueryUserByEmail(username)
           resp == LoginResponse(user, password, now, t2)
       IN  /\ resp.token = NoToken => t2 = now
           /\ Done(r, "login", username, password, user, "open", resp)
    /\ ClockAt(t2)
    /\ UNCHANGED <<users, minted, boot, call, transactions>>

----------------------------------------------------------------------------
(* GET /oauth/google/callback *)

\* what the provider answers: the code exchange, then the userinfo fetch.
\* "" stands for a missing or empty field.
ProviderOutcomes ==
    {[exchange |-> "fail", userinfo |-> "none", email |-> "", name |-> ""],
     [exchange |-> "ok", userinfo |-> "raise", email |-> "", name |-> ""]}
    \cup {[exchange |-> "ok", userinfo |-> "ok", email |-> e, name |-> n] :
             e \in Emails \cup {""}, n \in {"", "Ann G"}}

\* google_callback without its check of the email (lines 49-54)
CallbackStart_NoEmailCheck(r, p, t2) ==
    /\ req[r].kind = "idle"
    /\ IF p.exchange = "fail"
       THEN /\ t2 = now
            /\ Done(r, "callback", "", "", NoUser, "open",
                    HTTPException(400, "Failed to authorize with Google", ""))
       ELSE IF p.userinfo = "raise"
       THEN /\ t2 = now
            /\ Done(r, "callback", "", "", NoUser, "open", Unhandled("OAuthError"))
       ELSE LET user == QueryUserByEmail(p.email)
                name == IF p.name = "" THEN "Unknown Google User" ELSE p.name
            IN  IF user = NoUser
                THEN /\ t2 = now
                     /\ req' = [req EXCEPT ![r] =
                                  [Idle EXCEPT !.kind = "callback", !.pc = "add",
                                               !.email = p.email,
                                               !.session = "open",
                                               !.row = User(0, p.email, NoneHash,
                                                           name, TRUE)]]
                ELSE Done(r, "callback", p.email, "", user, "open",
                          CallbackRedirect(user, now, t2))
    /\ ClockAt(t2)
    /\ UNCHANGED <<users, minted, boot, call, transactions>>

\* from the code exchange to the lookup by email; an existing user gets its
\* token at once, a new one is handed to db.add
CallbackStart(r, p, t2) ==
    /\ req[r].kind = "idle"
    /\ IF p.exchange = "fail"
       THEN /\ t2 = now
            /\ Done(r, "callback", "", "", NoUser, "open",
                    HTTPException(400, "Failed to authorize with Google", ""))
       ELSE IF p.userinfo = "raise"
       THEN /\ t2 = now
            /\ Done(r, "callback", "", "", NoUser, "open", Unhandled("OAuthError"))
       ELSE IF p.email = ""
       THEN /\ t2 = now
            /\ Done(r, "callback", "", "", NoUser, "open",
                    HTTPException(400,
                        "Google account does not have an email address", ""))
       ELSE LET user == QueryUserByEmail(p.email)
                name == IF p.name = "" THEN "Unknown Google User" ELSE p.name
            IN  IF user = NoUser
                THEN /\ t2 = now
                     /\ req' = [req EXCEPT ![r] =
                                  [Idle EXCEPT !.kind = "callback", !.pc = "add",
                                               !.email = p.email,
                                               !.session = "open",
                                               !.row = User(0, p.email, NoneHash,
                                                           name, TRUE)]]
                ELSE Done(r, "callback", p.email, "", user, "open",
                          CallbackRedirect(user, now, t2))
    /\ ClockAt(t2)
    /\ UNCHANGED <<users, minted, boot, call, transactions>>

----------------------------------------------------------------------------
(* Identity resolver (dependencies.py) *)

\* db.query(User).filter(User.id == user_id).first(): the id column is a
\* UUID, and a bind value that is no uuid string makes the statement fail
QueryUserById(user_id) ==
    IF \E u \in users : u.id = user_id.v
    THEN CHOOSE u \in users : u.id = user_id.v
    ELSE NoUser

\* a resolver that refuses the token of a deactivated user
get_current_user_ActiveOnly(token, t) ==
    LET decoded == jwt_decode(token, SECRET_KEY, {ALGORITHM}, t)
    IN  IF ~decoded.ok THEN credentials_exception
        ELSE IF "sub" \notin DOMAIN decoded.payload THEN credentials_exception
        ELSE IF ~IsUuidString(decoded.payload["sub"]) THEN Unhandled("DataError")
        ELSE IF QueryUserById(decoded.payload["sub"]) = NoUser
             THEN credentials_exception
        ELSE IF ~QueryUserById(decoded.payload["sub"]).is_active
             THEN credentials_exception
        ELSE Success(200, NoToken, QueryUserById(decoded.payload["sub"]))

get_current_user(token, t) ==
    LET decoded == jwt_decode(token, SECRET_KEY, {ALGORITHM}, t)
    IN  IF ~decoded.ok THEN credentials_exception
        ELSE IF "sub" \notin DOMAIN decoded.payload THEN credentials_exception
        ELSE IF ~IsUuidString(decoded.payload["sub"]) THEN Unhandled("DataError")
        ELSE IF QueryUserById(decoded.payload["sub"]) = NoUser
             THEN credentials_exception
        ELSE Success(200, NoToken, QueryUserById(decoded.payload["sub"]))

\* tokens a client holds: those the responses carried and the one minted
HeldTokens ==
    ({req[q].resp.token : q \in Reqs} \cup {minted.token}) \ {NoToken}

\* tokens nobody issued: signed with another key, declaring no algorithm,
\* no JWT at all, and one signed with the secret but carrying no subject
CraftedClaims ==
    {[sub |-> StrOfUuid(i), exp |-> Timegm(now) + 60, iat |-> Timegm(now)] :
        i \in {u.id : u \in users} \cup {1}}
ForgedTokens ==
    {[alg |-> ALGORITHM, key |-> "attacker", claims |-> c] : c \in CraftedClaims}
    \cup {[alg |-> "none", key |-> "", claims |-> c] : c \in CraftedClaims}
    \cup {[alg |-> "garbage", key |-> "", claims |-> EmptyClaims]}
NoSubjectToken ==
    [alg |-> ALGORITHM, key |-> SECRET_KEY,
     claims |-> [exp |-> Timegm(now) + 60, iat |-> Timegm(now)]]

GetCurrentUser(r, token) ==
    /\ req[r].kind = "idle"
    /\ LET resp == get_current_user(token, now)
       IN  req' = [req EXCEPT ![r] =
                     [Idle EXCEPT !.kind = "resolve", !.pc = "done",
                                  !.token_in = token, !.at = now,
                                  !.row = resp.user, !.session = "open",
                                  !.resp = resp]]
    /\ UNCHANGED <<users, now, budget, minted, boot, call, transactions>>

----------------------------------------------------------------------------
(* The environment: the end of a request, the clock, deactivation, and a   *)
(* direct call of the token issuer                                          *)

\* get_db without try/finally: the close is skipped when the handler raises
Finish_NoFinally(r) ==
    /\ req[r].pc = "done"
    /\ req[r].resp.status < 400
    /\ req' = [req EXCEPT ![r] = Idle]
    /\ UNCHANGED <<users, now, budget, minted, boot, call, transactions>>

\* the response is sent and get_db closes the session
Finish(r) ==
    /\ req[r].pc = "done"
    /\ req' = [req EXCEPT ![r] = Idle]
    /\ UNCHANGED <<users, now, budget, minted, boot, call, transactions>>

ClockSteps == {1, TimedeltaMinutes(ACCESS_TOKEN_EXPIRE_MINUTES)}

Tick(d) ==
    /\ budget > 0
    /\ now' = now + d
    /\ budget' = budget - 1
    /\ UNCHANGED <<users, req, minted, boot, call, transactions>>

\* soft deactivation: the active flag of a stored user is cleared
Deactivate(u) ==
    /\ u.is_active
    /\ users' = (users \ {u}) \cup {[u EXCEPT !.is_active = FALSE]}
    /\ UNCHANGED <<req, now, budget, minted, boot, call, transactions>>

NoCall == [fn |-> "", args |-> <<>>, result |-> ""]

NoMint == [called |-> FALSE, subject |-> StrOfUuid(0), data |-> NoneDict,
           expires_delta |-> NoneDelta, t1 |-> 0, t2 |-> 0,
           token |-> NoToken, data_after |-> NoneDict,
           decoded |-> [ok |-> FALSE, payload |-> EmptyClaims]]

IssueSubjects == TextSubjects \cup {StrOfUuid(i) : i \in UserIds}
IssueData ==
    {NoneDict,
     SomeDict([role |-> "admin"]),
     SomeDict([sub |-> StrOfUuid(1), exp |-> 0, iat |-> 0, role |-> "admin"]),
     SomeDict([role |-> "admin", aud |-> "xpay-web"])}
IssueDeltas == {NoneDelta, SomeDelta(0), SomeDelta(TimedeltaSeconds(1))}

\* one direct call in a behaviour (tokens do not depend on one another),
\* the token decoded as soon as it is returned, as the unit tests do
Issue(subject, data, expires_delta, t2) ==
    /\ ~minted.called
    /\ LET result == create_access_token(subject, data, expires_delta, now, t2)
       IN  minted' = [called |-> TRUE, subject |-> subject, data |-> data,
                      expires_delta |-> expires_delta, t1 |-> now, t2 |-> t2,
                      token |-> result.token, data_after |-> result.data,
                      decoded |-> jwt_decode(result.token, SECRET_KEY,
                                             {ALGORITHM}, t2)]
    /\ ClockAt(t2)
    /\ UNCHANGED <<users, req, boot, call, transactions>>

----------------------------------------------------------------------------
(* Process startup.  Importing app.xpay executes the modules below in      *)
(* order; each reads its configuration from the environment (the process   *)
(* environment merged with the .env file).                                  *)

Unset == "<unset>"
EnvNames == {"DATABASE_URL", "SECRET_KEY", "FERNET_KEY", "SESSION_SECRET",
             "GOOGLE_CLIENT_ID", "GOOGLE_CLIENT_SECRET"}
EnvValues == {Unset, "", "v"}

\* `not value` on the result of os.getenv: None and "" are both falsy
Falsy(value) == value \in {Unset, ""}

\* the modules with module-level configuration code, in the order the
\* imports of xpay.py first execute them (core/encryption.py is imported by
\* none of them)
ImportChain == <<"database", "dependencies", "core.oauth", "core.security",
                 "xpay">>

\* the exception the module-level code of m raises under env, "" for none.
\* starlette's config(name) raises KeyError only when the name is absent;
\* xpay.py passes os.getenv("SESSION_SECRET") on without looking at it.
ModuleError(m, env) ==
    CASE m = "database" ->
            IF Falsy(env["DATABASE_URL"]) THEN "ValueError" ELSE ""
      [] m = "dependencies" ->
            IF Falsy(env["SECRET_KEY"]) THEN "ValueError" ELSE ""
      [] m = "core.oauth" ->
            IF env["GOOGLE_CLIENT_ID"] = Unset \/ env["GOOGLE_CLIENT_SECRET"] = Unset
            THEN "KeyError" ELSE ""
      [] m = "core.security" ->
            IF Falsy(env["SECRET_KEY"]) THEN "RuntimeError" ELSE ""
      [] m = "xpay" -> ""

\* SessionMiddleware signs the cookie with str(secret_key): str(None) is "None"
SessionSigner(secret_key) == IF secret_key = Unset THEN "None" ELSE secret_key

\* one module of the chain is executed: an exception ends the process, the
\* last module leaves the application object ready to serve
ImportModule ==
    /\ boot.state = "importing"
    /\ LET error == ModuleError(ImportChain[boot.pc], boot.env)
       IN  boot' = IF error # ""
                   THEN [boot EXCEPT !.state = "aborted", !.error = error]
                   ELSE IF boot.pc < Len(ImportChain)
                   THEN [boot EXCEPT !.pc = @ + 1]
                   ELSE [boot EXCEPT !.state = "serving",
                                     !.session_secret =
                                         SessionSigner(boot.env["SESSION_SECRET"])]
    /\ UNCHANGED <<users, req, now, budget, minted, call, transactions>>

\* the process the request handlers of the other specifications run in:
\* started with every variable set
FullEnv == [k \in EnvNames |-> "v"]
Booted == [env |-> FullEnv, pc |-> Len(ImportChain), state |-> "serving",
           error |-> "", session_secret |-> SessionSigner(FullEnv["SESSION_SECRET"])]

----------------------------------------------------------------------------
(* Specification of the request handlers against the shared store: every  *)
(* interleaving of two requests' steps, all within one clock tick (no      *)
(* clock advance is left to the behaviour)                                  *)

Init ==
    /\ users = {}
    /\ req = [r \in Reqs |-> Idle]
    /\ now = 0
    /\ budget = 0
    /\ minted = NoMint
    /\ boot = Booted
    /\ call = NoCall
    /\ transactions = {}

Next ==
    \/ \E r \in Reqs, email \in Emails, password \in RegisterPasswords,
          full_name \in FullNames, salt \in Salts :
            RegisterLookup(r, email, password, full_name, salt)
    \/ \E r \in Reqs : Flush(r)
    \/ \E r \in Reqs : Commit(r)
    \/ \E r \in Reqs, t2 \in ClockReadings : Respond(r, t2)
    \/ \E r \in Reqs, username \in Emails, password \in Passwords,
          t2 \in ClockReadings : Login(r, username, password, t2)
    \/ \E r \in Reqs, p \in ProviderOutcomes, t2 \in ClockReadings :
            CallbackStart(r, p, t2)
    \/ \E r \in Reqs, token \in HeldTokens \cup ForgedTokens \cup {NoSubjectToken} :
            GetCurrentUser(r, token)
    \/ \E r \in Reqs : Finish(r)
    \/ \E u \in users : Deactivate(u)

Spec == Init /\ [][Next]_vars

\* The server runs every handler it has started to its end, and the
\* framework runs the exit code of get_db once the response is made: no
\* step of a request that stays possible is put off for ever.
Fairness ==
    \A r \in Reqs :
        /\ WF_vars(Flush(r))
        /\ WF_vars(Commit(r))
        /\ WF_vars(\E t2 \in ClockReadings : Respond(r, t2))
        /\ WF_vars(Finish(r))

SpecFair == Spec /\ Fairness

(* Specification of the token issuer and the resolver: direct calls of     *)
(* create_access_token with any subject, extra claims and expiry override, *)
(* resolved against a store that is empty or holds one registered user     *)

SeedStores ==
    {{}, {User(1, "a@x.io", get_password_hash("pw1", 1), "Ann", TRUE)}}

InitToken ==
    /\ users \in SeedStores
    /\ req = [r \in Reqs |-> Idle]
    /\ now = 0
    /\ budget = MaxTicks
    /\ minted = NoMint
    /\ boot = Booted
    /\ call = NoCall
    /\ transactions = {}

\* the resolver is called by one request at a time here
FirstReq == CHOOSE r \in Reqs : \A q \in Reqs : r <= q

NextToken ==
    \/ \E subject \in IssueSubjects, data \in IssueData,
          expires_delta \in IssueDeltas, t2 \in ClockReadings :
            Issue(subject, data, expires_delta, t2)
    \/ \E token \in HeldTokens \cup ForgedTokens \cup {NoSubjectToken} :
            GetCurrentUser(FirstReq, token)
    \/ Finish(FirstReq)
    \/ \E d \in ClockSteps : Tick(d)

SpecToken == InitToken /\ [][NextToken]_vars

----------------------------------------------------------------------------
(* Specification of sessions over time: beside a registered user another  *)
(* one registers, both log in by password or through the provider, the     *)
(* clock advances, accounts may be deactivated, and the tokens the         *)
(* responses carried are presented to the resolver                          *)

InitSession ==
    /\ users \in SeedStores \ {{}}
    /\ req = [r \in Reqs |-> Idle]
    /\ now = 0
    /\ budget = MaxTicks
    /\ minted = NoMint
    /\ boot = Booted
    /\ call = NoCall
    /\ transactions = {}

\* identities the provider returns once the exchange has succeeded
SessionIdentities ==
    {p \in ProviderOutcomes : p.email # "" /\ p.name # ""}

NextSession ==
    \/ \E r \in Reqs, username \in Emails, password \in Passwords,
          t2 \in ClockReadings : Login(r, username, password, t2)
    \/ \E r \in Reqs, full_name \in FullNames, salt \in Salts :
            RegisterLookup(r, "b@x.io", "pw1", full_name, salt)
    \/ \E r \in Reqs : Flush(r)
    \/ \E r \in Reqs : Commit(r)
    \/ \E r \in Reqs, t2 \in ClockReadings : Respond(r, t2)
    \/ \E r \in Reqs, p \in SessionIdentities, t2 \in ClockReadings :
            CallbackStart(r, p, t2)
    \/ \E r \in Reqs, token \in HeldTokens : GetCurrentUser(r, token)
    \/ \E r \in Reqs : Finish(r)
    \/ \E u \in users : Deactivate(u)
    \/ \E d \in ClockSteps : Tick(d)

SpecSession == InitSession /\ [][NextSession]_vars

(* Specification of process startup: from any environment, the modules    *)
(* xpay.py imports are executed in order; once the application object is   *)
(* built, requests are served                                               *)

InitStartup ==
    /\ users = {}
    /\ req = [r \in Reqs |-> Idle]
    /\ now = 0
    /\ budget = 0
    /\ minted = NoMint
    /\ boot \in {[env |-> e, pc |-> 1, state |-> "importing", error |-> "",
                  session_secret |-> ""] : e \in [EnvNames -> EnvValues]}
    /\ call = NoCall
    /\ transactions = {}

\* a request reaches a handler only once the application object exists
Serve(r, username, password) ==
    /\ boot.state = "serving"
    /\ Login(r, username, password, now)

NextStartup ==
    \/ ImportModule
    \/ \E username \in Emails, password \in Passwords :
            Serve(FirstReq, username, password)
    \/ boot.state = "serving" /\ Finish(FirstReq)

SpecStartup == InitStartup /\ [][NextStartup]_vars

(* Specification of the handlers on emails that differ only in letter      *)
(* case: Register, Login and the callback on three spellings of one address *)

CaseEmails == {"ann@x.io", "Ann@x.io", "ann@X.io"}

\* pydantic's EmailStr, the type of UserCreate.email: the validated value is
\* the address with its domain in lower case, the local part as written
EmailStr(email) == IF email = "ann@X.io" THEN "ann@x.io" ELSE email

CaseIdentities ==
    {[exchange |-> "ok", userinfo |-> "ok", email |-> e, name |-> "Ann G"] :
        e \in CaseEmails}

InitCase == Init

NextCase ==
    \/ \E r \in Reqs, email \in CaseEmails, full_name \in FullNames,
          salt \in Salts :
            RegisterLookup(r, EmailStr(email), "pw1", full_name, salt)
    \/ \E r \in Reqs : Flush(r)
    \/ \E r \in Reqs : Commit(r)
    \/ \E r \in Reqs : Respond(r, now)
    \/ \E r \in Reqs, username \in CaseEmails : Login(r, username, "pw1", now)
    \/ \E r \in Reqs, p \in CaseIdentities : CallbackStart(r, p, now)
    \/ \E r \in Reqs : Finish(r)

SpecCase == InitCase /\ [][NextCase]_vars

(* Field cipher (core/encryption.py) and the Fernet library it drives.     *)
(* A str is a text or the text of a Fernet token; bytes are the UTF-8       *)
(* encoding of a text or bytes that are no valid UTF-8.                      *)

FERNET_KEY == "fernet-key"

None == [kind |-> "None"]
Text(s) == [kind |-> "str", s |-> s]

\* a str holding a lone surrogate, which UTF-8 cannot encode
LoneSurrogate == "\\ud800"
Texts == {"", "iban", LoneSurrogate}

Utf8Bytes(s) == [utf8 |-> TRUE, s |-> s]
OtherBytes == [utf8 |-> FALSE, s |-> "ff"]

\* Fernet(key).encrypt(data): a token over a fresh iv, authenticated with the
\* key.  Its text is url-safe base64 of version, time, iv, ciphertext and
\* HMAC, so it is ASCII and never the text it was made from.
FernetToken(key, iv, data) ==
    [kind |-> "token", key |-> key, iv |-> iv, data |-> data, intact |-> TRUE]

Returned(value) == [raised |-> "", value |-> value]
Raised(exception) == [raised |-> exception, value |-> None]

\* encrypt treating every falsy plaintext, the empty string too, as absent
encrypt_FalsyAbsent(plaintext, iv) ==
    IF plaintext = None \/ plaintext = Text("") THEN Returned(Text(""))
    ELSE IF plaintext.s = LoneSurrogate THEN Raised("UnicodeEncodeError")
    ELSE Returned(FernetToken(FERNET_KEY, iv, Utf8Bytes(plaintext.s)))

\* encrypt(plaintext), iv being the random draw of Fernet.encrypt;
\* plaintext.encode() raises UnicodeEncodeError on a lone surrogate
encrypt(plaintext, iv) ==
    IF plaintext = None THEN Returned(Text(""))
    ELSE IF plaintext.s = LoneSurrogate THEN Raised("UnicodeEncodeError")
    ELSE Returned(FernetToken(FERNET_KEY, iv, Utf8Bytes(plaintext.s)))

\* decrypt(ciphertext): None for a falsy argument; ciphertext.encode() is
\* inside the try, but only InvalidToken is caught, which Fernet.decrypt
\* raises for a text that is no token, a token of another key and a token
\* that was altered; decrypted_bytes.decode() raises UnicodeDecodeError on
\* bytes that are no UTF-8
decrypt(ciphertext) ==
    IF ciphertext = None \/ ciphertext = Text("") THEN Returned(None)
    ELSE IF ciphertext.kind = "str"
         THEN IF ciphertext.s = LoneSurrogate THEN Raised("UnicodeEncodeError")
              ELSE Returned(None)
    ELSE IF ciphertext.key # FERNET_KEY \/ ~ciphertext.intact THEN Returned(None)
    ELSE IF ~ciphertext.data.utf8 THEN Raised("UnicodeDecodeError")
    ELSE Returned(Text(ciphertext.data.s))

(* Specification of the functions called on their own, as the unit tests   *)
(* call them: each step is one call, with any arguments                      *)

\* what may be handed to verify_password as the hash
HashArguments ==
    {get_password_hash(password, salt) : password \in Passwords, salt \in Salts}
    \cup MalformedHashes \cup {NoneHash}

HashPassword(password, salt) ==
    /\ call' = [fn |-> "get_password_hash", args |-> <<password>>,
                result |-> get_password_hash(password, salt)]
    /\ UNCHANGED <<users, req, now, budget, minted, boot, transactions>>

VerifyPassword(plain_password, hashed_password) ==
    /\ call' = [fn |-> "verify_password",
                args |-> <<plain_password, hashed_password>>,
                result |-> VerifyOutcome(plain_password, hashed_password)]
    /\ UNCHANGED <<users, req, now, budget, minted, boot, transactions>>

Ivs == 1..MaxIv
Plaintexts == {None} \cup {Text(s) : s \in Texts}

\* what may be handed to decrypt: None, texts that are no token, the tokens
\* encrypt returns, and tokens it cannot have returned: altered ones, ones
\* made with another key, and one made with the key over bytes that are no
\* UTF-8
CiphertextArguments ==
    Plaintexts
    \cup {FernetToken(key, iv, Utf8Bytes(s)) :
             key \in {FERNET_KEY, "other-key"}, iv \in Ivs,
             s \in Texts \ {LoneSurrogate}}
    \cup {[FernetToken(FERNET_KEY, iv, Utf8Bytes(s)) EXCEPT !.intact = FALSE] :
             iv \in Ivs, s \in Texts \ {LoneSurrogate}}
    \cup {FernetToken(FERNET_KEY, iv, OtherBytes) : iv \in Ivs}

\* encrypt, and decrypt of what it returned (as test_encryption.py does)
Encrypt(plaintext, iv) ==
    /\ LET encrypted == encrypt(plaintext, iv)
       IN  call' = [fn |-> "encrypt", args |-> <<plaintext>>,
                    result |-> [encrypted |-> encrypted,
                                decrypted |-> IF encrypted.raised = ""
                                              THEN decrypt(encrypted.value)
                                              ELSE encrypted]]
    /\ UNCHANGED <<users, req, now, budget, minted, boot, transactions>>

Decrypt(ciphertext) ==
    /\ call' = [fn |-> "decrypt", args |-> <<ciphertext>>,
                result |-> decrypt(ciphertext)]
    /\ UNCHANGED <<users, req, now, budget, minted, boot, transactions>>

(* Pagination of the transaction listing (routers/transactions.py) *)

MaxTotal == 5         \* rows the filtered query of a listing may count
MaxSkip == 5          \* largest skip a listing is called with
MaxLimit == 3         \* largest limit a listing is called with

\* math.ceil(a / b) for a >= 0 and b > 0: the quotient is exact in a float
\* for every count a table can hold
ceil_div(a, b) == (a + b - 1) \div b

\* the metadata get_transactions computes from the count and the window
PaginationMeta(total, skip, limit) ==
    LET current_page == IF limit > 0 THEN (skip \div limit) + 1 ELSE 1
        total_pages == IF limit > 0 THEN ceil_div(total, limit) ELSE 1
    IN  [total |-> total, skip |-> skip, limit |-> limit,
         page |-> current_page, pages |-> total_pages,
         has_next |-> current_page < total_pages,
         has_prev |-> current_page > 1]

\* .offset(skip).limit(limit).all() over a query of total rows: how many
\* rows come back
WindowLength(total, skip, limit) ==
    IF skip >= total THEN 0
    ELSE IF total - skip < limit THEN total - skip
    ELSE limit

\* GET /transactions/ over a filtered query that counts total rows; skip
\* and limit have passed the validation of the query parameters
get_transactions(total, skip, limit) ==
    /\ call' = [fn |-> "get_transactions", args |-> <<total, skip, limit>>,
                result |-> [items |-> WindowLength(total, skip, limit),
                            meta |-> PaginationMeta(total, skip, limit)]]
    /\ UNCHANGED <<users, req, now, budget, minted, boot, transactions>>

InitLib == Init

NextLib ==
    \/ \E password \in Passwords, salt \in Salts : HashPassword(password, salt)
    \/ \E plain_password \in Passwords, hashed_password \in HashArguments :
            VerifyPassword(plain_password, hashed_password)
    \/ \E plaintext \in Plaintexts, iv \in Ivs : Encrypt(plaintext, iv)
    \/ \E ciphertext \in CiphertextArguments : Decrypt(ciphertext)
    \/ \E total \in 0..MaxTotal, skip \in 0..MaxSkip, limit \in 1..MaxLimit :
            get_transactions(total, skip, limit)

SpecLib == InitLib /\ [][NextLib]_vars

----------------------------------------------------------------------------
(* Transactions (routers/transactions.py).  A row keeps its id, the id of  *)
(* the user it belongs to, its category and its amount.                     *)

MaxTx == 2            \* transaction ids uuid4 may draw

TxIds == 1..MaxTx
CategoryIds == {[kind |-> "uuid", v |-> 1]}
Amounts == {10, 20}

NoTransaction == [id |-> 0, user_id |-> 0, category_id |-> None, amount |-> 0]

\* TransactionCreate: a positive amount and a category id, which is
\* required but may be null.  The schema has no user_id field.
TransactionCreate ==
    [amount : Amounts, category_id : CategoryIds \cup {None}]

TxResponse(status, detail, tx, user) ==
    [status |-> status, detail |-> detail, tx |-> tx, user |-> user]

\* db.query(Transaction).filter(Transaction.id == transaction_id).first()
QueryTransactionById(transaction_id) ==
    IF \E tx \in transactions : tx.id = transaction_id
    THEN CHOOSE tx \in transactions : tx.id = transaction_id
    ELSE NoTransaction

\* the dependency without its ownership test
get_transaction_or_404_NoOwnerTest(transaction_id, token) ==
    LET resolved == get_current_user(token, now)
        current_user == resolved.user
        tx == QueryTransactionById(transaction_id)
    IN  IF resolved.status # 200
        THEN TxResponse(resolved.status, resolved.detail, NoTransaction, NoUser)
        ELSE IF tx = NoTransaction
        THEN TxResponse(404, "Transaction not found", NoTransaction, current_user)
        ELSE TxResponse(200, "", tx, current_user)

\* get_transaction_or_404 with the dependencies it runs first: the caller
\* is resolved from the bearer token, then the row is looked up by id
get_transaction_or_404(transaction_id, token) ==
    LET resolved == get_current_user(token, now)
        current_user == resolved.user
        tx == QueryTransactionById(transaction_id)
    IN  IF resolved.status # 200
        THEN TxResponse(resolved.status, resolved.detail, NoTransaction, NoUser)
        ELSE IF tx = NoTransaction
        THEN TxResponse(404, "Transaction not found", NoTransaction, current_user)
        ELSE IF tx.user_id # current_user.id
        THEN TxResponse(403, "Not owner", NoTransaction, current_user)
        ELSE TxResponse(200, "", tx, current_user)

\* POST /transactions/: the row is built from the body and the caller's
\* id; the category column is not nullable, so a null category makes the
\* commit fail.  id is the uuid4 the column default draws.
create_transaction(token, transaction, id) ==
    /\ id \notin {tx.id : tx \in transactions}
    /\ LET resolved == get_current_user(token, now)
           current_user == resolved.user
           db_transaction == [id |-> id, user_id |-> current_user.id,
                              category_id |-> transaction.category_id,
                              amount |-> transaction.amount]
           response ==
               IF resolved.status # 200
               THEN TxResponse(resolved.status, resolved.detail,
                               NoTransaction, NoUser)
               ELSE IF transaction.category_id = None
               THEN TxResponse(500, "IntegrityError", NoTransaction, current_user)
               ELSE TxResponse(201, "", db_transaction, current_user)
       IN  /\ transactions' = IF response.status = 201
                              THEN transactions \cup {db_transaction}
                              ELSE transactions
           /\ call' = [fn |-> "create_transaction",
                       args |-> <<token, transaction>>, result |-> response]
    /\ UNCHANGED <<users, req, now, budget, minted, boot>>

\* GET /transactions/{transaction_id}
get_transaction(token, transaction_id) ==
    /\ call' = [fn |-> "get_transaction", args |-> <<token, transaction_id>>,
                result |-> get_transaction_or_404(transaction_id, token)]
    /\ UNCHANGED <<users, req, now, budget, minted, boot, transactions>>

\* PUT /transactions/{transaction_id}: every field of the body is set on
\* the row, then the commit
update_transaction(token, transaction_id, update_data) ==
    /\ LET found == get_transaction_or_404(transaction_id, token)
           tx == [found.tx EXCEPT !.amount = update_data.amount,
                                  !.category_id = update_data.category_id]
           response ==
               IF found.status # 200 THEN found
               ELSE IF update_data.category_id = None
               THEN TxResponse(500, "IntegrityError", NoTransaction, found.user)
               ELSE TxResponse(200, "", tx, found.user)
       IN  /\ transactions' = IF response.status = 200
                              THEN (transactions \ {found.tx}) \cup {tx}
                              ELSE transactions
           /\ call' = [fn |-> "update_transaction",
                       args |-> <<token, transaction_id, update_data>>,
                       result |-> response]
    /\ UNCHANGED <<users, req, now, budget, minted, boot>>

\* DELETE /transactions/{transaction_id}
delete_transaction(token, transaction_id) ==
    /\ LET found == get_transaction_or_404(transaction_id, token)
           response == IF found.status # 200 THEN found
                       ELSE TxResponse(204, "", NoTransaction, found.user)
       IN  /\ transactions' = IF response.status = 204
                              THEN transactions \ {found.tx}
                              ELSE transactions
           /\ call' = [fn |-> "delete_transaction",
                       args |-> <<token, transaction_id>>, result |-> response]
    /\ UNCHANGED <<users, req, now, budget, minted, boot>>

(* Specification of the transaction endpoints: two registered users, each  *)
(* holding the token a login returned, and a client with a forged token,   *)
(* call the endpoints in any order with any ids                              *)

TxUsers ==
    {User(1, "a@x.io", get_password_hash("pw1", 1), "Ann", TRUE),
     User(2, "b@x.io", get_password_hash("pw2", 1), "Ann", TRUE)}

\* the tokens login returns to the stored users, and one nobody issued
BearerTokens ==
    {LoginResponse(u, pw, now, now).token : u \in users, pw \in Passwords}
    \cup {[alg |-> "garbage", key |-> "", claims |-> EmptyClaims]}

InitTx ==
    /\ users = TxUsers
    /\ req = [r \in Reqs |-> Idle]
    /\ now = 0
    /\ budget = 0
    /\ minted = NoMint
    /\ boot = Booted
    /\ call = NoCall
    /\ transactions = {}

NextTx ==
    \/ \E token \in BearerTokens, transaction \in TransactionCreate,
          id \in TxIds : create_transaction(token, transaction, id)
    \/ \E token \in BearerTokens, transaction_id \in TxIds :
            get_transaction(token, transaction_id)
    \/ \E token \in BearerTokens, transaction_id \in TxIds,
          update_data \in TransactionCreate :
            update_transaction(token, transaction_id, update_data)
    \/ \E token \in BearerTokens, transaction_id \in TxIds :
            delete_transaction(token, transaction_id)

SpecTx == InitTx /\ [][NextTx]_vars

----------------------------------------------------------------------------
(* Properties of registration, login and the OAuth callback (Spec) *)

IsDone(r, kind) == req[r].kind = kind /\ req[r].pc = "done"

\* the request found its email absent and went on to insert
PassedCheck(r) == req[r].session \in {"committed", "rolled_back", "failed"}

\* the request's insert hit a constraint: its new object never got an id
LostInsert(r) == PassedCheck(r) /\ req[r].row.id = 0

UsersWithEmail(email) == {u \in users : u.email = email}

\* two Register requests for one email that raced from a store without it:
\* r found it absent, and q either found it absent too or found r's row
RegisterRace(r, q) ==
    /\ r # q
    /\ IsDone(r, "register") /\ IsDone(q, "register")
    /\ req[r].email = req[q].email
    /\ PassedCheck(r)
    /\ PassedCheck(q) \/ req[q].row.id = req[r].row.id

C2_LoserGetsConflict ==
    \A r \in Reqs :
        IsDone(r, "register") /\ LostInsert(r) =>
            /\ req[r].resp.status = 400
            /\ req[r].resp.detail = "Email already registered"
            /\ req[r].session = "rolled_back"
            /\ \A q \in Reqs :
                  IsDone(q, "register") /\ ~PassedCheck(q) =>
                      req[q].resp = req[r].resp

\* a loser of the race beside a request rejected by the existence check
C2_Witness ==
    \E r, q \in Reqs :
        /\ IsDone(r, "register") /\ LostInsert(r)
        /\ IsDone(q, "register") /\ ~PassedCheck(q)

\* C3: the callback's find-or-create is safe under concurrency: no callback
\* ends with an unhandled constraint violation, and once a callback for an
\* email is done the store holds exactly one user with that email.
C3_CallbackFindOrCreateSafe ==
    \A r \in Reqs :
        IsDone(r, "callback") /\ req[r].email # "" =>
            /\ req[r].resp.status # 500
            /\ Cardinality(UsersWithEmail(req[r].email)) = 1

\* C4: no token-issuing operation (Login, OAuth callback) returns a token for
\* a user whose active flag is false when the request reads it.
C4_InactiveNeverAuthenticates ==
    \A r \in Reqs :
        /\ req[r].kind \in {"login", "callback"}
        /\ req[r].pc = "done"
        /\ req[r].resp.token # NoToken
        => req[r].row.is_active

\* C5: Login answers one and the same failure (401, "Invalid email or
\* password", challenge Bearer, no token) when there is no user with the
\* email, when the stored hash is absent, when the password does not verify
\* and when the user is inactive.
C5_LoginUniformFailure ==
    \A r \in Reqs :
        /\ IsDone(r, "login")
        /\ \/ req[r].row = NoUser
           \/ req[r].row.hashed_password = NoneHash
           \/ req[r].row.hashed_password.pw # req[r].password
           \/ ~req[r].row.is_active
        => req[r].resp = [status |-> 401, detail |-> "Invalid email or password",
                          challenge |-> "Bearer", token |-> NoToken,
                          user |-> NoUser]

\* one Login refused for an inactive user whose password was right, beside
\* one refused for a wrong password and an active user
C5_Witness ==
    \E r, q \in Reqs :
        /\ IsDone(r, "login") /\ req[r].row # NoUser
        /\ req[r].row.hashed_password.pw = req[r].password
        /\ ~req[r].row.is_active
        /\ IsDone(q, "login") /\ req[q].row # NoUser
        /\ req[q].row.hashed_password.pw # req[q].password
        /\ req[q].row.is_active

----------------------------------------------------------------------------
(* Properties of the token issuer and the identity resolver (SpecToken) *)

CredentialsFailure ==
    [status |-> 401, detail |-> "Could not validate credentials",
     challenge |-> "Bearer", token |-> NoToken, user |-> NoUser]

Signed(token) == token.alg = ALGORITHM /\ token.key = SECRET_KEY
HasClaim(token, k) == k \in DOMAIN token.claims

\* the token's subject is the stringified id of no stored user
SubjectUnknown(token) ==
    /\ HasClaim(token, "sub")
    /\ \A u \in users : token.claims["sub"] # StrOfUuid(u.id)

\* the token is signed and, read in whole seconds, not past its expiry
Verifies(token, t) ==
    /\ Signed(token)
    /\ HasClaim(token, "exp") => token.claims["exp"] >= Timegm(t)

\* C6: the resolver answers the one uniform failure (401, "Could not validate
\* credentials") when the token fails verification, has no subject claim, or
\* has a subject, whatever string it is, that matches no stored user; never
\* an unhandled error.
C6_ResolverUniformFailure ==
    \A r \in Reqs :
        /\ IsDone(r, "resolve")
        /\ \/ ~Verifies(req[r].token_in, req[r].at)
           \/ ~HasClaim(req[r].token_in, "sub")
           \/ SubjectUnknown(req[r].token_in)
        => req[r].resp = CredentialsFailure

\* C7: a resolver call made at a time later than the token's expiry e fails
\* with the uniform failure.
C7_NeverValidAfterExpiry ==
    \A r \in Reqs :
        /\ IsDone(r, "resolve")
        /\ HasClaim(req[r].token_in, "exp")
        /\ req[r].at > TimedeltaSeconds(req[r].token_in.claims["exp"])
        => req[r].resp = CredentialsFailure

\* C7, amended: a resolver call made at a time whose whole second is later
\* than the token's expiry e fails with the uniform failure.
C7_NeverValidAfterExpirySecond ==
    \A r \in Reqs :
        /\ IsDone(r, "resolve")
        /\ HasClaim(req[r].token_in, "exp")
        /\ Timegm(req[r].at) > req[r].token_in.claims["exp"]
        => req[r].resp = CredentialsFailure

\* an issued token for a stored user, presented a whole second past its expiry
C7_Witness ==
    \E r \in Reqs :
        /\ IsDone(r, "resolve")
        /\ req[r].token_in = minted.token
        /\ Signed(req[r].token_in)
        /\ ~SubjectUnknown(req[r].token_in)
        /\ Timegm(req[r].at) > req[r].token_in.claims["exp"]

\* the duration a call asks for: the override if given, else the default
RequestedDuration(expires_delta) ==
    IF expires_delta.none THEN TimedeltaMinutes(ACCESS_TOKEN_EXPIRE_MINUTES)
    ELSE expires_delta.t

\* C8: the decoded exp of an issued token equals its decoded iat plus the
\* effective duration, also when the clock advances during the call (stated
\* for the calls whose override is absent or not zero).
C8_ExpiryIsIssuedAtPlusDuration ==
    /\ minted.called
    /\ minted.expires_delta.none \/ minted.expires_delta.t # 0
    => minted.token.claims["exp"] =
         minted.token.claims["iat"]
         + RequestedDuration(minted.expires_delta) \div TicksPerSecond

\* C9: whatever the extra claims are, the issued token's sub is str(subject),
\* its exp and iat are the values the issuer computed, and the caller's
\* mapping is left as it was.
C9_ReservedClaimsWin ==
    minted.called =>
        /\ minted.token.claims["sub"] = PyStr(minted.subject)
        /\ minted.token.claims["exp"] =
             Timegm(minted.t1
                    + (IF Truthy(minted.expires_delta) THEN minted.expires_delta.t
                       ELSE TimedeltaMinutes(ACCESS_TOKEN_EXPIRE_MINUTES)))
        /\ minted.token.claims["iat"] = Timegm(minted.t2)
        /\ minted.data_after = minted.data

\* a call whose extra claims carry sub, exp and iat, all different from the
\* values the issuer sets
C9_Witness ==
    /\ minted.called
    /\ ~minted.data.none
    /\ {"sub", "exp", "iat"} \subseteq DOMAIN minted.data.d
    /\ minted.data.d["sub"] # PyStr(minted.subject)
    /\ minted.data.d["exp"] # minted.token.claims["exp"]
    /\ minted.data.d["iat"] # minted.token.claims["iat"]

\* C10: a token not signed with the configured secret never resolves to a
\* user, whatever its subject and expiry claims are.
C10_UnsignedNeverResolves ==
    \A r \in Reqs :
        IsDone(r, "resolve") /\ ~Signed(req[r].token_in) =>
            /\ req[r].resp = CredentialsFailure
            /\ req[r].row = NoUser

\* a forged token naming a stored user, with an expiry in the future
C10_Witness ==
    \E r \in Reqs :
        /\ IsDone(r, "resolve")
        /\ ~Signed(req[r].token_in)
        /\ HasClaim(req[r].token_in, "sub")
        /\ ~SubjectUnknown(req[r].token_in)
        /\ req[r].token_in.claims["exp"] > Timegm(req[r].at)

(* Properties of the OAuth callback, registration and login, continued *)

\* C11: a callback whose code exchange succeeded and whose provider identity
\* carries an email the store does not hold creates exactly one user with
\* that email and no password hash, persists it, and then redirects with a
\* token for it.
C11_CallbackCreatesUser ==
    \A r \in Reqs :
        IsDone(r, "callback") /\ PassedCheck(r) =>
            /\ req[r].resp.status = 307
            /\ req[r].resp.token # NoToken
            /\ Cardinality(UsersWithEmail(req[r].email)) = 1
            /\ \A u \in UsersWithEmail(req[r].email) :
                  /\ u.hashed_password = NoneHash
                  /\ req[r].resp.token.claims["sub"] = StrOfUuid(u.id)

\* the step in which request r's handler, of the given kind, starts
Starts(r, kind) == req[r].kind = "idle" /\ req'[r].kind = kind

ProviderFailed(p) == p.exchange = "fail" \/ p.userinfo = "raise" \/ p.email = ""

\* C13: a failure in the second phase of the OAuth flow (the code exchange
\* fails, the userinfo fetch fails, or the identity has no email) ends the
\* request at once with no token, leaves the store unchanged and never
\* reaches the create-user step; a callback reaches that step only with a
\* successful exchange and a non-empty email.
C13_CallbackFailureLeavesStore ==
    [][\A r \in Reqs, p \in ProviderOutcomes, t2 \in {now, now + 1} :
          Starts(r, "callback") /\ CallbackStart(r, p, t2) =>
              /\ ProviderFailed(p) =>
                    /\ users' = users
                    /\ req'[r].pc = "done"
                    /\ req'[r].resp.status \notin {200, 201, 307}
                    /\ req'[r].resp.token = NoToken
              /\ req'[r].pc = "add" =>
                    /\ p.exchange = "ok" /\ p.userinfo = "ok" /\ p.email # ""
                    /\ req'[r].row.email = p.email]_vars

\* a callback that failed for a missing email beside one whose userinfo fetch
\* failed, the store holding a user
C13_Witness ==
    \E r, q \in Reqs :
        /\ IsDone(r, "callback") /\ IsDone(q, "callback")
        /\ req[r].resp.detail = "Google account does not have an email address"
        /\ req[q].resp.detail = "OAuthError"
        /\ users # {}

\* C14: every failure of a network call to the provider during the callback,
\* the code exchange or the userinfo fetch, ends the request with the
\* exchange-failure outcome (400 "Failed to authorize with Google"), never
\* with an unhandled error.
C14_ProviderFailureHandled ==
    [][\A r \in Reqs, p \in ProviderOutcomes, t2 \in {now, now + 1} :
          /\ Starts(r, "callback") /\ (p.exchange = "fail" \/ p.userinfo = "raise")
          /\ CallbackStart(r, p, t2)
          =>
              /\ req'[r].pc = "done"
              /\ req'[r].resp.status \in {400, 502}
              /\ req'[r].resp.detail = "Failed to authorize with Google"]_vars

\* C15: password login is unavailable for an account the OAuth callback
\* created: once a callback has created a user for its email, that user is
\* in the store with no password hash, and every Login with that email is
\* refused with the uniform invalid-credentials failure, whatever the password.
C15_NoPasswordLoginAfterCallback ==
    \A r \in Reqs :
        IsDone(r, "callback") /\ PassedCheck(r) =>
            /\ \E u \in UsersWithEmail(req[r].email) : u.hashed_password = NoneHash
            /\ \A q \in Reqs :
                  /\ IsDone(q, "login")
                  /\ req[q].email = req[r].email
                  /\ req[q].row.hashed_password = NoneHash
                  => /\ req[q].resp.status = 401
                     /\ req[q].resp.detail = "Invalid email or password"
                     /\ req[q].resp.token = NoToken

\* C16: a Register that meets a stored user with its email, at the existence
\* check or at the insert, is rejected with 'Email already registered': the
\* step leaves the store unchanged (no second row, the existing user and its
\* password hash as they were) and the response carries no token.
C16_RegisterDuplicateRejected ==
    [][\A r \in Reqs :
          /\ req'[r].kind = "register"
          /\ req[r].pc \in {"idle", "add"} /\ req'[r].pc # req[r].pc
          /\ UsersWithEmail(req'[r].email) # {}
          => /\ users' = users
             /\ req'[r].pc = "done"
             /\ req'[r].resp.status = 400
             /\ req'[r].resp.detail = "Email already registered"
             /\ req'[r].resp.token = NoToken
             /\ req'[r].resp.user = NoUser]_vars

\* a Register rejected at the existence check, having submitted a password
\* other than the stored user's
C16_Witness ==
    \E r \in Reqs :
        /\ IsDone(r, "register") /\ ~PassedCheck(r)
        /\ req[r].resp.status = 400
        /\ req[r].row \in users
        /\ ~verify_password(req[r].password, req[r].row.hashed_password)

C18_LoginSucceeds ==
    [][\A r \in Reqs :
          Starts(r, "login") =>
              /\ users' = users
              /\ req'[r].pc = "done"
              /\ LET user == QueryUserByEmail(req'[r].email)
                 IN  /\ user # NoUser
                     /\ user.is_active
                     /\ verify_password(req'[r].password, user.hashed_password)
                     => /\ req'[r].resp.status = 200
                        /\ req'[r].resp.user = user
                        /\ Signed(req'[r].resp.token)
                        /\ req'[r].resp.token.claims["sub"] = StrOfUuid(user.id)
      ]_vars

\* a Login has succeeded for a stored, active user
C18_Witness ==
    \E r \in Reqs :
        /\ IsDone(r, "login")
        /\ req[r].resp.status = 200
        /\ req[r].resp.user \in users
        /\ req[r].resp.user.is_active
        /\ req[r].resp.user.email = req[r].email
        /\ req[r].resp.token # NoToken

(* Properties of a session over time (SpecSession) *)

\* C19: the resolver does not look at the active flag: a token a Login
\* issued keeps resolving to its user at every clock reading up to its
\* expiry, also once the user has been deactivated, while every Login that
\* reads the user deactivated is refused.
C19_TokenOutlivesDeactivation ==
    \A r \in Reqs :
        /\ /\ IsDone(r, "resolve")
           /\ Signed(req[r].token_in)
           /\ HasClaim(req[r].token_in, "sub")
           /\ ~SubjectUnknown(req[r].token_in)
           /\ Timegm(req[r].at) <= req[r].token_in.claims["exp"]
           => /\ req[r].resp.status = 200
              /\ StrOfUuid(req[r].resp.user.id) = req[r].token_in.claims["sub"]
        /\ IsDone(r, "login") /\ req[r].row # NoUser /\ ~req[r].row.is_active
           => /\ req[r].resp.status = 401
              /\ req[r].resp.token = NoToken

\* the token one request's Login returned has resolved, at a later second,
\* to its user read deactivated
C19_Witness ==
    \E r, q \in Reqs :
        /\ IsDone(q, "login") /\ req[q].resp.status = 200
        /\ IsDone(r, "resolve") /\ req[r].token_in = req[q].resp.token
        /\ req[r].resp.status = 200
        /\ ~req[r].resp.user.is_active
        /\ Timegm(req[r].at) > req[r].token_in.claims["iat"]

(* Properties of process startup (SpecStartup) *)

RequiredConfig == {"SECRET_KEY", "FERNET_KEY", "SESSION_SECRET", "DATABASE_URL"}

\* C20: startup aborts whenever a required configuration value (signing
\* secret, cipher key, session cookie secret, database URL) is missing: with
\* one of them unset the process never gets to serve, no request is handled,
\* and no stand-in value is used for it.
C20_MissingConfigAborts ==
    (\E k \in RequiredConfig : boot.env[k] = Unset) =>
        /\ boot.state # "serving"
        /\ \A r \in Reqs : req[r] = Idle
        /\ boot.session_secret # "None"

(* Properties of the email as a lookup key (SpecCase) *)

\* the address in lower case
Lower(email) == IF email \in CaseEmails THEN "ann@x.io" ELSE email

KnownIgnoringCase(email) == \E u \in users : Lower(u.email) = Lower(email)

\* C21: the email is a case-insensitive lookup key: a Register whose email
\* equals a stored one ignoring case is rejected as a duplicate, Login and
\* the callback given such an email find the stored user, and the store
\* never holds two users whose emails are equal ignoring case.
C21_EmailCaseInsensitive ==
    [][/\ \A u, v \in users' : Lower(u.email) = Lower(v.email) => u = v
       /\ \A r \in Reqs :
             /\ Starts(r, "register") /\ KnownIgnoringCase(req'[r].email) =>
                   /\ req'[r].pc = "done"
                   /\ req'[r].resp.detail = "Email already registered"
             /\ /\ Starts(r, "login") \/ Starts(r, "callback")
                /\ KnownIgnoringCase(req'[r].email)
                => /\ req'[r].row \in users
                   /\ Lower(req'[r].row.email) = Lower(req'[r].email)
      ]_vars

(* Properties of the library functions (SpecLib) *)

\* C22: verify_password returns true exactly when the password is the one
\* the hash was made from, and it returns (false) rather than raising when
\* the hash string is malformed.
C22_VerifyIffMatches ==
    call.fn = "verify_password" =>
        /\ call.result \in {"True", "False"}
        /\ call.result = "True" <=>
              \E salt \in Salts :
                  call.args[2] = get_password_hash(call.args[1], salt)

\* the round trip of one plaintext: encrypt returns a str other than the
\* plaintext, and decrypt of it returns the plaintext
RoundTrips(plaintext, result) ==
    /\ result.encrypted.raised = ""
    /\ result.encrypted.value # plaintext
    /\ result.decrypted = Returned(plaintext)

\* encrypt(None) is "" and decrypt("") is None
NullCase ==
    /\ call.fn = "encrypt" /\ call.args[1] = None =>
          /\ call.result.encrypted = Returned(Text(""))
          /\ call.result.decrypted = Returned(None)
    /\ call.fn = "decrypt" /\ call.args[1] = Text("") =>
          call.result = Returned(None)

ProducedByEncrypt(ciphertext) ==
    \E plaintext \in Plaintexts, iv \in Ivs :
        encrypt(plaintext, iv) = Returned(ciphertext)

\* C24: decrypt never raises: for every input string that encrypt did not
\* produce under the current key (altered, malformed, or made under another
\* key) it returns None, never an exception and never a partly decoded value.
C24_DecryptNeverRaises ==
    /\ call.fn = "decrypt"
    /\ call.args[1] # None
    /\ ~ProducedByEncrypt(call.args[1])
    => call.result = Returned(None)

(* Properties of the token issuer, continued (SpecToken) *)

\* C25: for every expiry override given (any duration d >= 0), the decoded
\* expiry of the issued token lies within a second of t + d, t being the
\* time of the call; the default duration is used only when no override is
\* given.
C25_OverrideRespected ==
    minted.called =>
        /\ ~minted.expires_delta.none =>
              /\ minted.token.claims["exp"]
                    >= Timegm(minted.t1 + minted.expires_delta.t)
              /\ minted.token.claims["exp"]
                    <= Timegm(minted.t1 + minted.expires_delta.t) + 1
        /\ minted.expires_delta.none =>
              minted.token.claims["exp"] =
                  Timegm(minted.t1 + TimedeltaMinutes(ACCESS_TOKEN_EXPIRE_MINUTES))

\* the extra claims of the call as a mapping: None is the empty mapping
ExtraClaims == IF minted.data.none THEN EmptyClaims ELSE minted.data.d

\* the token decodes to the subject as a string, an exp and an iat claim,
\* and every extra claim with the value it was given
DecodesBack ==
    /\ minted.decoded.ok
    /\ {"sub", "exp", "iat"} \subseteq DOMAIN minted.decoded.payload
    /\ minted.decoded.payload["sub"] = PyStr(minted.subject)
    /\ \A k \in DOMAIN ExtraClaims :
          /\ k \in DOMAIN minted.decoded.payload
          /\ minted.decoded.payload[k] = ExtraClaims[k]

C27_SessionReleased ==
    /\ [](\A r \in Reqs : req[r].kind # "idle" <=> req[r].session # "none")
    /\ [][\A r \in Reqs :
             req[r].session # "none" /\ req'[r].session = "none" =>
                 req[r].pc = "done" /\ req'[r] = Idle]_vars
    /\ \A r \in Reqs : (req[r].kind # "idle") ~> (req[r].session = "none")

\* a request that ended in an unexpected error, its session not yet closed,
\* beside one that ended in an HTTP failure
C27_Witness ==
    \E r, q \in Reqs :
        /\ req[r].pc = "done" /\ req[r].resp.status = 500
        /\ req[r].session # "none"
        /\ req[q].pc = "done" /\ req[q].resp.status \in {400, 401}

(* Properties of sessions over time, continued (SpecSession) *)

\* request q holds the response of Register, Login or the callback, with
\* the token it issued
Issued(q) ==
    /\ req[q].kind \in {"register", "login", "callback"}
    /\ req[q].pc = "done"
    /\ req[q].resp.token # NoToken

\* C28: every token Register, Login or the callback issues has as subject
\* the id, as a string, of the user the response returns, who is committed
\* in the store; and whenever that token is resolved at a clock reading not
\* past its expiry, the resolver returns that same user, never another one
\* and never a failure.
C28_TokenSubjectIsCommittedUser ==
    \A q \in Reqs :
        Issued(q) =>
            /\ req[q].resp.token.claims["sub"] = StrOfUuid(req[q].resp.user.id)
            /\ \E u \in users : u.id = req[q].resp.user.id
                                /\ u.email = req[q].resp.user.email
            /\ \A r \in Reqs :
                  /\ IsDone(r, "resolve")
                  /\ req[r].token_in = req[q].resp.token
                  /\ Timegm(req[r].at) <= req[r].token_in.claims["exp"]
                  => /\ req[r].resp.status = 200
                     /\ req[r].resp.user.id = req[q].resp.user.id
                     /\ req[r].resp.user.email = req[q].resp.user.email

\* the token of a Register response has resolved, a second user being in
\* the store, at a later second
C28_Witness ==
    \E q, r \in Reqs :
        /\ Issued(q) /\ req[q].kind = "register"
        /\ IsDone(r, "resolve")
        /\ req[r].token_in = req[q].resp.token
        /\ req[r].resp.status = 200
        /\ Timegm(req[r].at) > req[r].token_in.claims["iat"]
        /\ Cardinality(users) > 1

\* the same for the token of a callback's redirect
C28_WitnessCallback ==
    \E q, r \in Reqs :
        /\ Issued(q) /\ req[q].kind = "callback"
        /\ IsDone(r, "resolve")
        /\ req[r].token_in = req[q].resp.token
        /\ req[r].resp.status = 200

(* Properties of the transaction endpoints (SpecTx) *)

ByIdEndpoints == {"get_transaction", "update_transaction", "delete_transaction"}

\* the step is a by-id call, with transaction id i, of a caller who resolved
ByIdCall(i) ==
    /\ call'.fn \in ByIdEndpoints
    /\ call'.args[2] = i
    /\ get_current_user(call'.args[1], now).status = 200

CallerId == get_current_user(call'.args[1], now).user.id

\* C29: a by-id call (get, update, delete) of a resolved user who does not
\* own the transaction answers 403 and leaves the table as it was; one with
\* an id no row has answers 404; and over every step a row keeps its
\* user_id, a new row having the id of the user whose create call made it.
C29_OwnershipEnforced ==
    [][/\ \A i \in TxIds :
             ByIdCall(i) =>
                /\ (\E tx \in transactions : tx.id = i /\ tx.user_id # CallerId)
                      => /\ call'.result.status = 403
                         /\ transactions' = transactions
                /\ (\A tx \in transactions : tx.id # i)
                      => /\ call'.result.status = 404
                         /\ transactions' = transactions
       /\ \A new \in transactions' :
             \/ \E old \in transactions :
                   old.id = new.id /\ old.user_id = new.user_id
             \/ /\ \A old \in transactions : old.id # new.id
                /\ call'.fn = "create_transaction"
                /\ call'.result.status = 201
                /\ new.user_id = CallerId
                /\ \E u \in users : u.id = new.user_id]_vars

\* both users own a row, and the last call, an update of the other user's
\* row, was refused
C29_Witness ==
    /\ call.fn = "update_transaction"
    /\ call.result.status = 403
    /\ \E tx \in transactions :
          /\ tx.id = call.args[2]
          /\ tx.user_id # call.result.user.id
          /\ call.result.user.id \in {u.id : u \in users}
    /\ Cardinality({tx.user_id : tx \in transactions}) = 2

\* a delete of an id no row has was answered 404
C29_WitnessNotFound ==
    /\ call.fn = "delete_transaction"
    /\ call.result.status = 404
    /\ transactions # {}

(* Properties of the transaction listing (SpecLib) *)

Listed == call.fn = "get_transactions"

\* C30: in the listing, has_next holds exactly when rows exist beyond the
\* returned window (skip + limit < total), has_prev exactly when skip > 0,
\* and page <= pages whenever the window is not empty.
C30_PaginationConsistent ==
    Listed =>
        LET total == call.args[1]
            skip == call.args[2]
            limit == call.args[3]
            meta == call.result.meta
        IN  /\ meta.has_next <=> (skip + limit < total)
            /\ meta.has_prev <=> (skip > 0)
            /\ call.result.items > 0 => meta.page <= meta.pages

====
